---- MODULE Spec2Model ----
(***************************************************************************)
(* State-machine model of rp2's tax engine (src/src/rp2/tax_engine.py):    *)
(* compute_tax builds the taxable event set, matches taxable events        *)
(* against acquisition lots (FIFO), aggregates the gain/loss records into  *)
(* yearly summaries and cross-checks the totals.                           *)
(*                                                                         *)
(* Crypto amounts are integers.  USD amounts are exact rationals, kept as  *)
(* normalised pairs <<numerator, denominator>>, because the cost basis of  *)
(* a fragment is (fragment / lot quantity) * lot cost.                     *)
(***************************************************************************)
EXTENDS Integers, Sequences, FiniteSets, TLC

\* ------------------------------------------------------------------ bounds

\* Longest transaction history (in + out + intra transactions of one asset).
MaxTx == 3

\* Largest crypto quantity of one transaction.
MaxAmt == 3

\* USD fee paid on every acquisition (makes proportional cost bases fractional).
UsdFee == 1

\* Days in a year and days of holding that make a gain long-term, scaled down
\* from the calendar year and the 365 days of GainLoss.
YearLen == 2
LongTermDays == 2

\* ------------------------------------------------------- exact USD amounts

RECURSIVE GCD(_, _)
GCD(a, b) == IF b = 0 THEN a ELSE GCD(b, a % b)

Abs(n) == IF n < 0 THEN -n ELSE n

\* The rational n/d in lowest terms, d > 0.
Frac(n, d) ==
    LET g == GCD(Abs(n), Abs(d))
        s == IF d < 0 THEN -1 ELSE 1
    IN  <<(s * n) \div g, (s * d) \div g>>

ZERO == <<0, 1>>
Dec(n) == <<n, 1>>
RAdd(x, y) == Frac(x[1] * y[2] + y[1] * x[2], x[2] * y[2])
RSub(x, y) == Frac(x[1] * y[2] - y[1] * x[2], x[2] * y[2])
RMul(x, y) == Frac(x[1] * y[1], x[2] * y[2])
RDiv(x, y) == Frac(x[1] * y[2], x[2] * y[1])

\* ------------------------------------------------------------ transactions

InTypes == {"BUY", "EARN"}
OutTypes == {"SELL"}
IntraTypes == {"MOVE"}
TransactionTypes == InTypes \cup OutTypes \cup IntraTypes

\* No lot.
None == 0

\* No StopIteration raised.
NoIterator == "none"

\* Totals not computed yet.
NoTotals ==
    [crypto_taxable_amount_total |-> 0, usd_taxable_amount_total |-> ZERO,
     cost_basis_total |-> ZERO, gain_loss_total |-> ZERO]

\* Market price of one unit on a day: USD amounts of the inputs follow it.
SpotPrice(day) == day + 1

\* One raw transaction of the history: what was done and with how much crypto.
Tx == [transaction_type : TransactionTypes, crypto : 1..MaxAmt]

Histories == UNION {[1..n -> Tx] : n \in 0..MaxTx}

\* Day of the first transaction of a history: where the year ends varies.
FirstDays == 1..YearLen

\* The transaction at position i of a history that starts on day first, as
\* read from the input files: transactions are one day apart, in
\* chronological order.
Entry(h, i, first) ==
    [timestamp |-> first + i - 1,
     transaction_type |-> h[i].transaction_type,
     crypto |-> h[i].crypto,
     usd |-> IF h[i].transaction_type \in InTypes
             THEN h[i].crypto * SpotPrice(first + i - 1) + UsdFee
             ELSE h[i].crypto * SpotPrice(first + i - 1)]

RECURSIVE EntriesFrom(_, _, _, _)
EntriesFrom(h, types, first, i) ==
    IF i > Len(h) THEN <<>>
    ELSE IF h[i].transaction_type \in types
         THEN <<Entry(h, i, first)>> \o EntriesFrom(h, types, first, i + 1)
         ELSE EntriesFrom(h, types, first, i + 1)

\* The transactions of the given types, in chronological order.
EntriesOf(h, types, first) == EntriesFrom(h, types, first, 1)

\* AbstractTransaction.is_taxable: acquisitions are taxable when earned,
\* disposals always, transfers for the fee they burn.
is_taxable(t) == t.transaction_type # "BUY"

crypto_taxable_amount(t) == IF is_taxable(t) THEN t.crypto ELSE 0

usd_taxable_amount(t) == IF is_taxable(t) THEN Dec(t.usd) ELSE ZERO

Year(timestamp) == timestamp \div YearLen

\* ----------------------------------------------------------- Configuration

\* AccountingMethod.FIFO and AccountingMethod.LIFO, by value, and an argument
\* that is no AccountingMethod.
FIFO == "fifo"
LIFO == "lifo"
NotAnAccountingMethod == "<not an AccountingMethod>"
AccountingMethods == {FIFO, LIFO}

\* The configuration files there are: one that passes the schema, one that
\* does not; another path names no file, and one argument is no string.
ValidFile == "rp2.json"
InvalidFile == "invalid.json"
MissingFile == "missing.json"
NotAString == "<not a str>"
ExistingFiles == {ValidFile, InvalidFile}

\* up_to_year left out (None).
NoUpToYear == 0

\* Configuration.type_check_string
type_check_string(value) == IF value = NotAString THEN "RP2TypeError" ELSE "ok"

\* The check accepting every AccountingMethod.
AccountingMethod_type_check_any(instance) ==
    IF instance \notin AccountingMethods THEN "RP2TypeError" ELSE "ok"

\* AccountingMethod.type_check
AccountingMethod_type_check(instance) ==
    IF instance \notin AccountingMethods THEN "RP2TypeError"
    ELSE IF instance # FIFO THEN "NotImplementedError"
    ELSE "ok"

\* Configuration.type_check_positive_int(..., non_zero=True), called only for
\* a truthy up_to_year.
type_check_up_to_year(up_to_year) ==
    IF up_to_year # NoUpToYear /\ up_to_year < 0 THEN "RP2ValueError" ELSE "ok"

\* Configuration.__init__: the error it raises ("none" when it returns) and
\* whether it got as far as opening the configuration file.
Configuration_init(args) ==
    IF type_check_string(args.configuration_path) # "ok"
    THEN [error |-> type_check_string(args.configuration_path),
          file_opened |-> FALSE]
    ELSE IF AccountingMethod_type_check(args.accounting_method) # "ok"
    THEN [error |-> AccountingMethod_type_check(args.accounting_method),
          file_opened |-> FALSE]
    ELSE IF type_check_up_to_year(args.up_to_year) # "ok"
    THEN [error |-> type_check_up_to_year(args.up_to_year), file_opened |-> FALSE]
    ELSE IF args.configuration_path \notin ExistingFiles
    THEN [error |-> "RP2ValueError", file_opened |-> FALSE]
    ELSE IF args.configuration_path # ValidFile
    THEN [error |-> "ValidationError", file_opened |-> TRUE]
    ELSE [error |-> "none", file_opened |-> TRUE]

\* Configuration.type_check: compute_tax accepts any Configuration object.
Configuration_type_check(instances) == instances # {}

\* The arguments a default configuration is constructed with.
DefaultArgs ==
    [configuration_path |-> ValidFile, accounting_method |-> FIFO,
     up_to_year |-> NoUpToYear]

VARIABLES
    constructor_args,       \* arguments of Configuration(...)
    configuration_outcome,  \* how Configuration.__init__ ended
    configurations,         \* the Configuration objects that exist
    in_transaction_set,     \* input_data.in_transaction_set (the lots)
    out_transaction_set,    \* input_data.out_transaction_set
    intra_transaction_set,  \* input_data.intra_transaction_set
    taxable_event_set,      \* compute_tax: taxable_event_set
    pc,                     \* position in compute_tax
    taxable_event_iterator, \* number of taxable events already handed out
    from_lot_iterator,      \* number of lots already handed out
    taxable_event,          \* index of the current taxable event
    taxable_event_amount,   \* its remaining taxable amount
    from_lot,               \* index of the current lot
    from_lot_amount,        \* its remaining quantity
    gain_loss_set,          \* the gain/loss records, in matching order
    stop_iteration,         \* the iterator whose StopIteration ended the loop
    yearly_gain_loss_list,  \* the yearly summaries
    totals,                 \* totals over the yearly summaries
    verify                  \* outcome of _verify_computation

vars == <<constructor_args, configuration_outcome, configurations,
          in_transaction_set, out_transaction_set, intra_transaction_set,
          taxable_event_set, pc, taxable_event_iterator, from_lot_iterator,
          taxable_event, taxable_event_amount, from_lot, from_lot_amount,
          gain_loss_set, stop_iteration, yearly_gain_loss_list, totals, verify>>

inputs == <<constructor_args, configuration_outcome, configurations,
            in_transaction_set, out_transaction_set, intra_transaction_set>>

\* A configuration constructed with the default arguments.
Configured ==
    /\ constructor_args = DefaultArgs
    /\ configuration_outcome = Configuration_init(DefaultArgs)
    /\ configurations = {DefaultArgs}

matcher == <<taxable_event_iterator, from_lot_iterator, taxable_event,
             taxable_event_amount, from_lot, from_lot_amount, gain_loss_set,
             stop_iteration>>

aggregate == <<yearly_gain_loss_list, totals, verify>>

Init ==
    /\ Configured
    /\ \E h \in Histories, first \in FirstDays :
        /\ in_transaction_set = EntriesOf(h, InTypes, first)
        /\ out_transaction_set = EntriesOf(h, OutTypes, first)
        /\ intra_transaction_set = EntriesOf(h, IntraTypes, first)
    /\ taxable_event_set = <<>>
    /\ pc = "compute_tax"
    /\ taxable_event_iterator = 0
    /\ from_lot_iterator = 0
    /\ taxable_event = None
    /\ taxable_event_amount = 0
    /\ from_lot = None
    /\ from_lot_amount = 0
    /\ gain_loss_set = <<>>
    /\ stop_iteration = NoIterator
    /\ yearly_gain_loss_list = <<>>
    /\ totals = NoTotals
    /\ verify = "not run"

\* ------------------------------------------------ _create_taxable_event_set

RECURSIVE Taxable(_)
Taxable(s) ==
    IF s = <<>> THEN <<>>
    ELSE IF is_taxable(Head(s)) THEN <<Head(s)>> \o Taxable(Tail(s))
         ELSE Taxable(Tail(s))

\* TransactionSet keeps its entries ordered by timestamp: insert t after the
\* entries that are not later than it.
RECURSIVE add_entry(_, _)
add_entry(s, t) ==
    IF s = <<>> THEN <<t>>
    ELSE IF Head(s).timestamp <= t.timestamp
         THEN <<Head(s)>> \o add_entry(Tail(s), t)
         ELSE <<t>> \o s

RECURSIVE add_entries(_, _)
add_entries(s, ts) ==
    IF ts = <<>> THEN s ELSE add_entries(add_entry(s, Head(ts)), Tail(ts))

create_taxable_event_set ==
    add_entries(add_entries(add_entries(<<>>,
        Taxable(in_transaction_set)),
        Taxable(out_transaction_set)),
        Taxable(intra_transaction_set))

CreateTaxableEventSet ==
    /\ pc = "compute_tax"
    /\ Configuration_type_check(configurations)
    /\ taxable_event_set' = create_taxable_event_set
    /\ pc' = "match"
    /\ UNCHANGED <<inputs, matcher, aggregate>>

\* ------------------------------------------------ _create_gain_and_loss_set

\* EntrySetIterator.__next__: there is an entry left to hand out.
HasNext(iterator, entry_set) == iterator < Len(entry_set)

\* The handler swallowing every StopIteration.
except_StopIteration_swallow(value) == "returned"

\* except StopIteration: the lot iterator running dry is the insufficiency
\* error, the taxable event iterator running dry is the normal return.
except_StopIteration(value) ==
    IF value = "from_lot_iterator" THEN "RP2ValueError" ELSE "returned"

\* GainLoss(configuration, crypto_amount, taxable_event, from_lot)
GainLoss(crypto_amount, event, lot) ==
    [crypto_amount |-> crypto_amount, taxable_event |-> event, from_lot |-> lot]

CurrentEvent == taxable_event_set[taxable_event]
CurrentLot == in_transaction_set[from_lot]

IsEarn == CurrentEvent.transaction_type = "EARN"
\* The equal case left to the comparison branches.
IsEqual_never == FALSE

IsEqual == taxable_event_amount = from_lot_amount
IsLess == taxable_event_amount < from_lot_amount

\* The EARN record charged to the current lot.
EarnGainLoss_from_lot == GainLoss(taxable_event_amount, taxable_event, from_lot)

EarnGainLoss == GainLoss(taxable_event_amount, taxable_event, None)
EqualGainLoss == GainLoss(taxable_event_amount, taxable_event, from_lot)
\* The fragment sized by the lot's remainder instead of the event's.
LessGainLoss_lot_amount == GainLoss(from_lot_amount, taxable_event, from_lot)

LessGainLoss == GainLoss(taxable_event_amount, taxable_event, from_lot)
\* The fragment sized by the event's remainder instead of the lot's.
GreaterGainLoss_event_amount == GainLoss(taxable_event_amount, taxable_event, from_lot)

GreaterGainLoss == GainLoss(from_lot_amount, taxable_event, from_lot)

\* The lot's remainder not reduced by the fragment taken from it.
LessFromLotAmount_kept == from_lot_amount

LessFromLotAmount == from_lot_amount - taxable_event_amount

\* The event's remainder not reduced by the fragment allocated to it.
GreaterTaxableEventAmount_kept == taxable_event_amount

GreaterTaxableEventAmount == taxable_event_amount - from_lot_amount

\* taxable_event = next(taxable_event_iterator); taxable_event_amount = ...
TakeTaxableEvent ==
    /\ taxable_event_iterator' = taxable_event_iterator + 1
    /\ taxable_event' = taxable_event_iterator + 1
    /\ taxable_event_amount' =
          crypto_taxable_amount(taxable_event_set[taxable_event_iterator + 1])

\* The latest lot taken instead of the next one.
TakeFromLot_latest ==
    /\ from_lot_iterator' = from_lot_iterator + 1
    /\ from_lot' = Len(in_transaction_set) - from_lot_iterator
    /\ from_lot_amount' =
          in_transaction_set[Len(in_transaction_set) - from_lot_iterator].crypto

\* The lot iterator created anew at every read, so that it hands out the
\* first lot again.
TakeFromLot_restart ==
    /\ from_lot_iterator' = 1
    /\ from_lot' = 1
    /\ from_lot_amount' = in_transaction_set[1].crypto

\* from_lot = next(from_lot_iterator); from_lot_amount = from_lot.crypto_in
TakeFromLot ==
    /\ from_lot_iterator' = from_lot_iterator + 1
    /\ from_lot' = from_lot_iterator + 1
    /\ from_lot_amount' = in_transaction_set[from_lot_iterator + 1].crypto

\* next() raised StopIteration(iterator): the handler decides how to leave.
Stop(iterator) ==
    /\ stop_iteration' = iterator
    /\ pc' = except_StopIteration(iterator)

Continue ==
    /\ stop_iteration' = NoIterator
    /\ pc' = "loop"

KeepTaxableEvent ==
    UNCHANGED <<taxable_event_iterator, taxable_event, taxable_event_amount>>

KeepFromLot == UNCHANGED <<from_lot_iterator, from_lot, from_lot_amount>>

\* Lines 96-101: the first taxable event and the first lot.
MatchStart ==
    /\ pc = "match"
    /\ gain_loss_set' = <<>>
    /\ IF ~HasNext(taxable_event_iterator, taxable_event_set)
       THEN Stop("taxable_event_iterator") /\ KeepTaxableEvent /\ KeepFromLot
       ELSE /\ TakeTaxableEvent
            /\ IF ~HasNext(from_lot_iterator, in_transaction_set)
               THEN Stop("from_lot_iterator") /\ KeepFromLot
               ELSE TakeFromLot /\ Continue
    /\ UNCHANGED <<inputs, taxable_event_set, aggregate>>

\* Lines 104-110: an EARN event needs no lot.
EarnStep ==
    /\ pc = "loop"
    /\ IsEarn
    /\ gain_loss_set' = Append(gain_loss_set, EarnGainLoss)
    /\ IF ~HasNext(taxable_event_iterator, taxable_event_set)
       THEN Stop("taxable_event_iterator") /\ KeepTaxableEvent
       ELSE TakeTaxableEvent /\ Continue
    /\ KeepFromLot
    /\ UNCHANGED <<inputs, taxable_event_set, aggregate>>

\* Lines 112-118: the event's remainder is exactly the lot's remainder.
EqualStep ==
    /\ pc = "loop"
    /\ ~IsEarn
    /\ IsEqual
    /\ gain_loss_set' = Append(gain_loss_set, EqualGainLoss)
    /\ IF ~HasNext(taxable_event_iterator, taxable_event_set)
       THEN Stop("taxable_event_iterator") /\ KeepTaxableEvent /\ KeepFromLot
       ELSE /\ TakeTaxableEvent
            /\ IF ~HasNext(from_lot_iterator, in_transaction_set)
               THEN Stop("from_lot_iterator") /\ KeepFromLot
               ELSE TakeFromLot /\ Continue
    /\ UNCHANGED <<inputs, taxable_event_set, aggregate>>

\* Lines 119-124: the event's remainder fits in the lot.
LessStep ==
    /\ pc = "loop"
    /\ ~IsEarn
    /\ ~IsEqual
    /\ IsLess
    /\ gain_loss_set' = Append(gain_loss_set, LessGainLoss)
    /\ from_lot_amount' = LessFromLotAmount
    /\ UNCHANGED <<from_lot_iterator, from_lot>>
    /\ IF ~HasNext(taxable_event_iterator, taxable_event_set)
       THEN Stop("taxable_event_iterator") /\ KeepTaxableEvent
       ELSE TakeTaxableEvent /\ Continue
    /\ UNCHANGED <<inputs, taxable_event_set, aggregate>>

\* Lines 125-130: the event's remainder exceeds the lot.
GreaterStep ==
    /\ pc = "loop"
    /\ ~IsEarn
    /\ ~IsEqual
    /\ ~IsLess
    /\ gain_loss_set' = Append(gain_loss_set, GreaterGainLoss)
    /\ taxable_event_amount' = GreaterTaxableEventAmount
    /\ UNCHANGED <<taxable_event_iterator, taxable_event>>
    /\ IF ~HasNext(from_lot_iterator, in_transaction_set)
       THEN Stop("from_lot_iterator") /\ KeepFromLot
       ELSE TakeFromLot /\ Continue
    /\ UNCHANGED <<inputs, taxable_event_set, aggregate>>

\* --------------------------------------------- GainLoss derived attributes

EventOf(gain_loss) == taxable_event_set[gain_loss.taxable_event]
LotOf(gain_loss) == in_transaction_set[gain_loss.from_lot]

\* Proportional share of the lot's cost; nothing for a lotless record.
usd_cost_basis(gain_loss) ==
    IF gain_loss.from_lot = None THEN ZERO
    ELSE RMul(RDiv(Dec(gain_loss.crypto_amount), Dec(LotOf(gain_loss).crypto)),
              Dec(LotOf(gain_loss).usd))

\* Proportional share of the event's taxable USD amount.
taxable_event_usd_amount_with_fee_fraction(gain_loss) ==
    RMul(RDiv(Dec(gain_loss.crypto_amount),
              Dec(crypto_taxable_amount(EventOf(gain_loss)))),
         usd_taxable_amount(EventOf(gain_loss)))

usd_gain(gain_loss) ==
    RSub(taxable_event_usd_amount_with_fee_fraction(gain_loss),
         usd_cost_basis(gain_loss))

is_long_term_capital_gains(gain_loss) ==
    IF gain_loss.from_lot = None THEN FALSE
    ELSE EventOf(gain_loss).timestamp - LotOf(gain_loss).timestamp >= LongTermDays

\* -------------------------------------------- _create_yearly_gain_loss_list

Asset == "B1"

\* The key without the term of the gain.
YearlyGainLossId_no_term(gain_loss) ==
    [year |-> Year(EventOf(gain_loss).timestamp),
     asset |-> Asset,
     transaction_type |-> EventOf(gain_loss).transaction_type,
     is_long_term_capital_gains |-> FALSE]

\* _YearlyGainLossId of a record.
YearlyGainLossId(gain_loss) ==
    [year |-> Year(EventOf(gain_loss).timestamp),
     asset |-> Asset,
     transaction_type |-> EventOf(gain_loss).transaction_type,
     is_long_term_capital_gains |-> is_long_term_capital_gains(gain_loss)]

ZeroAmounts ==
    [crypto_amount |-> 0, usd_amount |-> ZERO,
     usd_cost_basis |-> ZERO, usd_gain_loss |-> ZERO]

\* The summary of a key overwritten by the record instead of added to.
Accumulate_overwrite(summaries, gain_loss) ==
    LET key == YearlyGainLossId(gain_loss)
        sum == [crypto_amount |-> gain_loss.crypto_amount,
                usd_amount |-> taxable_event_usd_amount_with_fee_fraction(gain_loss),
                usd_cost_basis |-> usd_cost_basis(gain_loss),
                usd_gain_loss |-> usd_gain(gain_loss)]
    IN  [k \in DOMAIN summaries \cup {key} |->
            IF k = key THEN sum ELSE summaries[k]]

\* Lines 162-178: one record added to the summary of its key.
Accumulate(summaries, gain_loss) ==
    LET key == YearlyGainLossId(gain_loss)
        value == IF key \in DOMAIN summaries THEN summaries[key] ELSE ZeroAmounts
        sum == [crypto_amount |-> value.crypto_amount + gain_loss.crypto_amount,
                usd_amount |-> RAdd(value.usd_amount,
                          taxable_event_usd_amount_with_fee_fraction(gain_loss)),
                usd_cost_basis |-> RAdd(value.usd_cost_basis,
                                        usd_cost_basis(gain_loss)),
                usd_gain_loss |-> RAdd(value.usd_gain_loss, usd_gain(gain_loss))]
    IN  [k \in DOMAIN summaries \cup {key} |->
            IF k = key THEN sum ELSE summaries[k]]

\* Lines 156-178: the summaries after the first n records.
RECURSIVE Summaries(_, _)
Summaries(records, n) ==
    IF n = 0 THEN <<>>
    ELSE Accumulate(Summaries(records, n - 1), records[n])

\* Lines 186-195: the YearlyGainLoss of one summary.
YearlyGainLoss(key, value) ==
    [year |-> key.year,
     asset |-> key.asset,
     transaction_type |-> key.transaction_type,
     is_long_term_capital_gains |-> key.is_long_term_capital_gains,
     crypto_amount |-> value.crypto_amount,
     usd_amount |-> value.usd_amount,
     usd_cost_basis |-> value.usd_cost_basis,
     usd_gain_loss |-> value.usd_gain_loss]

yearly_gain_loss_set(summaries) ==
    {YearlyGainLoss(key, summaries[key]) : key \in DOMAIN summaries}

\* Lines 181-200: the four totals over the yearly summaries.
RECURSIVE Totals(_)
Totals(yearly) ==
    IF yearly = {} THEN NoTotals
    ELSE LET y == CHOOSE x \in yearly : TRUE
             rest == Totals(yearly \ {y})
         IN  [crypto_taxable_amount_total |->
                  rest.crypto_taxable_amount_total + y.crypto_amount,
              usd_taxable_amount_total |->
                  RAdd(rest.usd_taxable_amount_total, y.usd_amount),
              cost_basis_total |-> RAdd(rest.cost_basis_total, y.usd_cost_basis),
              gain_loss_total |-> RAdd(rest.gain_loss_total, y.usd_gain_loss)]

\* _yearly_gain_loss_sort_criteria: "<asset> <year> <LONG|SHORT> <type>",
\* compared as text: LONG before SHORT, the type by its lower-case value.
TermRank(y) == IF y.is_long_term_capital_gains THEN 0 ELSE 1

TypeRank(y) ==
    CASE y.transaction_type = "BUY" -> 0
      [] y.transaction_type = "EARN" -> 1
      [] y.transaction_type = "MOVE" -> 2
      [] y.transaction_type = "SELL" -> 3

SortsBefore(x, y) ==
    \/ x.year < y.year
    \/ x.year = y.year /\ TermRank(x) < TermRank(y)
    \/ x.year = y.year /\ TermRank(x) = TermRank(y) /\ TypeRank(x) < TypeRank(y)

\* Line 204: sorted(..., reverse=True).
RECURSIVE SortedReverse(_)
SortedReverse(yearly) ==
    IF yearly = {} THEN <<>>
    ELSE LET top == CHOOSE x \in yearly :
                        \A y \in yearly \ {x} : SortsBefore(y, x)
         IN  <<top>> \o SortedReverse(yearly \ {top})

\* ------------------------------------------------------ _verify_computation

RECURSIVE SumCrypto(_)
SumCrypto(s) ==
    IF s = <<>> THEN 0 ELSE crypto_taxable_amount(Head(s)) + SumCrypto(Tail(s))

RECURSIVE SumUsd(_)
SumUsd(s) ==
    IF s = <<>> THEN ZERO ELSE RAdd(usd_taxable_amount(Head(s)), SumUsd(Tail(s)))

\* Lines 233-244.
usd_taxable_amount_total_verify ==
    RAdd(RAdd(SumUsd(in_transaction_set), SumUsd(out_transaction_set)),
         SumUsd(intra_transaction_set))

crypto_earned_amount_total_verify == SumCrypto(in_transaction_set)

crypto_sold_amount_total_verify ==
    SumCrypto(out_transaction_set) + SumCrypto(intra_transaction_set)

\* Line 246.
crypto_taxable_amount_total_verify ==
    crypto_sold_amount_total_verify + crypto_earned_amount_total_verify

\* The walk without the fractioning of the last lot.
RECURSIVE CostBasisWalk_unfractioned(_, _, _)
CostBasisWalk_unfractioned(i, crypto_in_amount_total, sold) ==
    IF i > Len(in_transaction_set) \/ crypto_in_amount_total >= sold THEN ZERO
    ELSE RAdd(Dec(in_transaction_set[i].usd),
              CostBasisWalk_unfractioned(i + 1,
                  crypto_in_amount_total + in_transaction_set[i].crypto, sold))

\* Lines 249-258: walk the lots from lot i on, with crypto_in_amount_total
\* already covered; the lot that exceeds the amount sold is fractioned and
\* ends the walk.
RECURSIVE CostBasisWalk(_, _, _)
CostBasisWalk(i, crypto_in_amount_total, sold) ==
    IF i > Len(in_transaction_set) THEN ZERO
    ELSE LET in_transaction == in_transaction_set[i]
         IN  IF crypto_in_amount_total + in_transaction.crypto > sold
             THEN RMul(RDiv(Dec(sold - crypto_in_amount_total),
                            Dec(in_transaction.crypto)),
                       Dec(in_transaction.usd))
             ELSE RAdd(Dec(in_transaction.usd),
                       CostBasisWalk(i + 1,
                           crypto_in_amount_total + in_transaction.crypto, sold))

cost_basis_total_verify == CostBasisWalk(1, 0, crypto_sold_amount_total_verify)

\* Line 260.
gain_loss_total_verify ==
    RSub(usd_taxable_amount_total_verify, cost_basis_total_verify)

\* Lines 262-273: the first incongruence raises.
verify_computation(t) ==
    IF t.crypto_taxable_amount_total # crypto_taxable_amount_total_verify
    THEN "crypto taxable amount incongruence"
    ELSE IF t.usd_taxable_amount_total # usd_taxable_amount_total_verify
    THEN "usd taxable amount incongruence"
    ELSE IF t.cost_basis_total # cost_basis_total_verify
    THEN "cost basis incongruence"
    ELSE IF t.gain_loss_total # gain_loss_total_verify
    THEN "gain/loss incongruence"
    ELSE "ok"

\* compute_tax line 46: the yearly summaries of the returned gain/loss set,
\* verified before they are handed back.
CreateYearlyGainLossList ==
    /\ pc = "returned"
    /\ LET yearly == yearly_gain_loss_set(Summaries(gain_loss_set, Len(gain_loss_set)))
           outcome == verify_computation(Totals(yearly))
       IN  /\ totals' = Totals(yearly)
           /\ verify' = outcome
           /\ IF outcome = "ok"
              THEN /\ yearly_gain_loss_list' = SortedReverse(yearly)
                   /\ pc' = "done"
              ELSE /\ yearly_gain_loss_list' = yearly_gain_loss_list
                   /\ pc' = "Exception"
    /\ UNCHANGED <<inputs, taxable_event_set, matcher>>

Next ==
    \/ CreateTaxableEventSet
    \/ MatchStart
    \/ EarnStep
    \/ EqualStep
    \/ LessStep
    \/ GreaterStep
    \/ CreateYearlyGainLossList

Spec == Init /\ [][Next]_vars

\* ------------------------------------------------------------------ claims

\* The matcher has left its loop by returning its gain/loss set.
Returned == pc \in {"returned", "done", "Exception"}

NEvents == Len(taxable_event_set)
NLots == Len(in_transaction_set)
NRecords == Len(gain_loss_set)

\* Crypto allocated to taxable event e by the first n records.
RECURSIVE AllocatedTo(_, _)
AllocatedTo(e, n) ==
    IF n = 0 THEN 0
    ELSE AllocatedTo(e, n - 1)
         + (IF gain_loss_set[n].taxable_event = e
            THEN gain_loss_set[n].crypto_amount ELSE 0)

\* Crypto drawn from lot l by the first n records.
RECURSIVE DrawnFrom(_, _)
DrawnFrom(l, n) ==
    IF n = 0 THEN 0
    ELSE DrawnFrom(l, n - 1)
         + (IF gain_loss_set[n].from_lot = l
            THEN gain_loss_set[n].crypto_amount ELSE 0)

\* Number of records among the first n that reference taxable event e.
RECURSIVE RecordsOf(_, _)
RecordsOf(e, n) ==
    IF n = 0 THEN 0
    ELSE RecordsOf(e, n - 1) + (IF gain_loss_set[n].taxable_event = e THEN 1 ELSE 0)

\* C1: whenever _create_gain_and_loss_set returns normally, the records that
\* reference a taxable event sum exactly to the event's taxable crypto amount,
\* for every taxable event.
C1_EveryEventFullyAllocated ==
    Returned =>
        \A e \in 1..NEvents :
            AllocatedTo(e, NRecords) = crypto_taxable_amount(taxable_event_set[e])

\* A normal return after one event was split over two lots and another event
\* was allocated as well.
C1_Witness ==
    /\ pc = "returned"
    /\ NEvents >= 2
    /\ \E e \in 1..NEvents : RecordsOf(e, NRecords) >= 2

\* C2 (state part): the records drawn from any lot never sum to more than
\* the lot's quantity, and while the loop runs the remaining quantity of the
\* current lot is its quantity less what was drawn, within 0..crypto_in.
C2_LotNeverOverdrawn ==
    /\ \A l \in 1..NLots : DrawnFrom(l, NRecords) <= in_transaction_set[l].crypto
    /\ from_lot # None =>
          /\ 0 <= from_lot_amount
          /\ from_lot_amount <= in_transaction_set[from_lot].crypto
    /\ pc = "loop" =>
          from_lot_amount
              = in_transaction_set[from_lot].crypto - DrawnFrom(from_lot, NRecords)

\* C2 (step part): while the same lot stays current its remaining quantity
\* only decreases.
C2_RemainderOnlyDecreases ==
    (from_lot # None /\ from_lot' = from_lot) => from_lot_amount' <= from_lot_amount

\* C2: at every step of the matching loop and in the final record sequence a
\* lot is never drawn beyond its original quantity; the current lot's
\* remaining quantity stays within 0..crypto_in and only decreases.
C2_LotWithinQuantity ==
    []C2_LotNeverOverdrawn /\ [][C2_RemainderOnlyDecreases]_vars

\* The loop is running on a lot that a record has drawn from and that still
\* has a remainder for the next event.
C2_Witness ==
    /\ pc = "loop"
    /\ DrawnFrom(from_lot, NRecords) > 0
    /\ from_lot_amount > 0
    /\ from_lot_amount < in_transaction_set[from_lot].crypto

\* C3: when the lot iterator runs dry while a taxable event is current, the
\* matcher fails with RP2ValueError and hands no gain/loss set on: nothing is
\* aggregated or verified, and a normal return never leaves an event short.
C3_LotsExhaustedRaises ==
    /\ stop_iteration = "from_lot_iterator" =>
          /\ pc = "RP2ValueError"
          /\ totals = NoTotals
          /\ verify = "not run"
          /\ yearly_gain_loss_list = <<>>
    /\ Returned =>
          /\ stop_iteration = "taxable_event_iterator"
          /\ \A e \in 1..NEvents :
                AllocatedTo(e, NRecords) >= crypto_taxable_amount(taxable_event_set[e])

\* The lots ran out in the middle of an event: records exist, the current
\* event is short, and the matcher raised.
C3_Witness ==
    /\ pc = "RP2ValueError"
    /\ NRecords >= 1
    /\ taxable_event # None
    /\ AllocatedTo(taxable_event, NRecords) > 0
    /\ AllocatedTo(taxable_event, NRecords)
          < crypto_taxable_amount(taxable_event_set[taxable_event])

\* The matcher has ended, by returning or by raising.
Ended == Returned \/ pc = "RP2ValueError"

\* Sum of crypto_in over all lots.
RECURSIVE SumCryptoIn(_)
SumCryptoIn(s) == IF s = <<>> THEN 0 ELSE Head(s).crypto + SumCryptoIn(Tail(s))

TotalAcquired == SumCryptoIn(in_transaction_set)

\* Taxable crypto of the lot-consuming (non-EARN) taxable events.
RECURSIVE SumLotConsuming(_)
SumLotConsuming(s) ==
    IF s = <<>> THEN 0
    ELSE (IF Head(s).transaction_type = "EARN" THEN 0
          ELSE crypto_taxable_amount(Head(s)))
         + SumLotConsuming(Tail(s))

TotalDisposed == SumLotConsuming(taxable_event_set)

\* C4: the matcher raises the insufficiency error exactly when the total
\* acquired quantity is less than the total taxable quantity of the
\* lot-consuming events.
C4_RaisesIffInsufficient ==
    Ended => ((pc = "RP2ValueError") <=> (TotalAcquired < TotalDisposed))

\* C5: lots are consumed in sequence order: the lot index of the lot-bearing
\* records never decreases, and when a record against a lot is emitted every
\* earlier lot has been drawn to its full quantity by the records before it.
C5_LotsInFifoOrder ==
    /\ \A i, j \in 1..NRecords :
          (i < j /\ gain_loss_set[i].from_lot # None
                 /\ gain_loss_set[j].from_lot # None)
              => gain_loss_set[i].from_lot <= gain_loss_set[j].from_lot
    /\ \A i \in 1..NRecords :
          gain_loss_set[i].from_lot # None =>
              \A l \in 1..(gain_loss_set[i].from_lot - 1) :
                  DrawnFrom(l, i - 1) = in_transaction_set[l].crypto

\* One event was split over the first two lots, in order, the first lot
\* drawn to its full quantity before the second was touched.
C5_Witness ==
    \E i, j \in 1..NRecords :
        /\ i < j
        /\ gain_loss_set[i].from_lot = 1
        /\ gain_loss_set[j].from_lot = 2
        /\ gain_loss_set[i].taxable_event = gain_loss_set[j].taxable_event
        /\ DrawnFrom(1, NRecords) = in_transaction_set[1].crypto

\* C6 (step part): with an EARN event current, the step appends one record
\* with no lot for the event's full taxable amount, leaves the lot, its
\* remainder and the lot iterator alone, and moves on to the next event or
\* returns when there is none.
C6_EarnStepFrame ==
    (pc = "loop" /\ taxable_event_set[taxable_event].transaction_type = "EARN") =>
        /\ gain_loss_set' = Append(gain_loss_set,
              [crypto_amount |-> crypto_taxable_amount(taxable_event_set[taxable_event]),
               taxable_event |-> taxable_event,
               from_lot |-> None])
        /\ from_lot' = from_lot
        /\ from_lot_amount' = from_lot_amount
        /\ from_lot_iterator' = from_lot_iterator
        /\ \/ pc' = "loop" /\ taxable_event' = taxable_event + 1
           \/ pc' = "returned" /\ taxable_event = NEvents

\* C6 (state part): an EARN event never has more than one record.
C6_OneRecordPerEarn ==
    \A e \in 1..NEvents :
        taxable_event_set[e].transaction_type = "EARN" => RecordsOf(e, NRecords) <= 1

\* C6: an EARN event gets exactly one record, with no lot and its full
\* taxable amount; the step advances only the taxable event and does not
\* touch the current lot, whatever the lot's remaining quantity.
C6_EarnBypassesLots == [][C6_EarnStepFrame]_vars /\ []C6_OneRecordPerEarn

\* An EARN record was emitted while the current lot's remainder was exactly
\* the event's amount, and the lot is still untouched.
C6_Witness ==
    /\ NRecords >= 1
    /\ gain_loss_set[NRecords].from_lot = None
    /\ from_lot # None
    /\ gain_loss_set[NRecords].crypto_amount = from_lot_amount
    /\ DrawnFrom(from_lot, NRecords) = 0

\* C7 (step part): when the event's remainder equals the lot's remainder the
\* step appends one record for that amount and, if the loop goes on, both the
\* next event and the next lot are current with their full amounts; else the
\* events are exhausted (return) or the lots are (insufficiency error).
C7_EqualStepAdvancesBoth ==
    (/\ pc = "loop"
     /\ taxable_event_set[taxable_event].transaction_type # "EARN"
     /\ taxable_event_amount = from_lot_amount) =>
        /\ gain_loss_set' = Append(gain_loss_set,
              [crypto_amount |-> taxable_event_amount,
               taxable_event |-> taxable_event,
               from_lot |-> from_lot])
        /\ \/ /\ pc' = "loop"
              /\ taxable_event' = taxable_event + 1
              /\ from_lot' = from_lot + 1
              /\ taxable_event_amount'
                    = crypto_taxable_amount(taxable_event_set[taxable_event + 1])
              /\ from_lot_amount' = in_transaction_set[from_lot + 1].crypto
           \/ pc' = "returned" /\ taxable_event = NEvents
           \/ pc' = "RP2ValueError" /\ taxable_event' = taxable_event + 1
                                    /\ from_lot = NLots

\* C7 (state part): every record has a positive amount, and no record is
\* emitted against a lot that the earlier records had already drawn to zero.
C7_NoZeroRecord ==
    \A i \in 1..NRecords :
        /\ gain_loss_set[i].crypto_amount > 0
        /\ gain_loss_set[i].from_lot # None =>
              DrawnFrom(gain_loss_set[i].from_lot, i - 1)
                  < in_transaction_set[gain_loss_set[i].from_lot].crypto

\* C7: an event whose remainder equals the lot's remainder takes one record
\* and advances both pointers in the same step; with positive inputs no
\* record is empty and no exhausted lot is drawn from again.
C7_EqualAdvancesBoth == [][C7_EqualStepAdvancesBoth]_vars /\ []C7_NoZeroRecord

\* An equal step was taken and the loop went on: the next event got its
\* record and the next lot is the current one.
C7_Witness ==
    \E i \in 1..NRecords :
        /\ i < NRecords
        /\ gain_loss_set[i].from_lot # None
        /\ gain_loss_set[i].crypto_amount
              = in_transaction_set[gain_loss_set[i].from_lot].crypto
        /\ gain_loss_set[i].crypto_amount
              = crypto_taxable_amount(taxable_event_set[gain_loss_set[i].taxable_event])
        /\ gain_loss_set[i + 1].taxable_event = gain_loss_set[i].taxable_event + 1
        /\ from_lot = gain_loss_set[i].from_lot + 1

\* _create_yearly_gain_loss_list has run (and with it _verify_computation).
Aggregated == pc \in {"done", "Exception"}

\* Total taxable crypto summed directly over the raw transactions.
RawCryptoTaxable ==
    SumCrypto(in_transaction_set) + SumCrypto(out_transaction_set)
        + SumCrypto(intra_transaction_set)

RECURSIVE SumYearlyCrypto(_)
SumYearlyCrypto(ys) ==
    IF ys = <<>> THEN 0 ELSE Head(ys).crypto_amount + SumYearlyCrypto(Tail(ys))

\* C8: after a normal return of the matcher the crypto amounts of the yearly
\* summaries add up to the taxable crypto of the raw transactions, and the
\* verifier's crypto comparison does not raise.
C8_CryptoTotalConserved ==
    Aggregated =>
        /\ totals.crypto_taxable_amount_total = RawCryptoTaxable
        /\ verify # "crypto taxable amount incongruence"
        /\ pc = "done" => SumYearlyCrypto(yearly_gain_loss_list) = RawCryptoTaxable

\* Verified totals over earned, sold and moved crypto in several summaries.
C8_Witness ==
    /\ pc = "done"
    /\ Len(yearly_gain_loss_list) >= 2
    /\ intra_transaction_set # <<>>
    /\ \E i \in 1..NRecords : gain_loss_set[i].from_lot = None
    /\ \E i \in 1..NRecords : gain_loss_set[i].from_lot # None

\* Sum of the proportional cost bases of the first n records.
RECURSIVE SumCostBasis(_)
SumCostBasis(n) ==
    IF n = 0 THEN ZERO
    ELSE RAdd(SumCostBasis(n - 1), usd_cost_basis(gain_loss_set[n]))

\* C9: after a normal return of the matcher the cost basis the verifier
\* recomputes from the lots equals the sum of the records' proportional cost
\* bases, and neither the cost-basis nor the gain/loss comparison raises.
C9_CostBasisAgrees ==
    /\ Returned => cost_basis_total_verify = SumCostBasis(NRecords)
    /\ Aggregated =>
          /\ totals.cost_basis_total = cost_basis_total_verify
          /\ totals.gain_loss_total = gain_loss_total_verify
          /\ verify = "ok"

\* Verified totals where the last lot consumed was fractioned and its share
\* of the cost is not a whole number.
C9_Witness ==
    /\ pc = "done"
    /\ NRecords >= 2
    /\ totals.cost_basis_total[2] # 1
    /\ \E l \in 1..NLots :
          /\ DrawnFrom(l, NRecords) > 0
          /\ DrawnFrom(l, NRecords) < in_transaction_set[l].crypto

\* The key of a yearly summary.
KeyOf(y) ==
    [year |-> y.year, asset |-> y.asset, transaction_type |-> y.transaction_type,
     is_long_term_capital_gains |-> y.is_long_term_capital_gains]

\* The key of a record: year of the event, asset, kind of the event, and
\* whether the lot was held long enough before the event.
RecordKey(r) ==
    [year |-> Year(taxable_event_set[r.taxable_event].timestamp),
     asset |-> Asset,
     transaction_type |-> taxable_event_set[r.taxable_event].transaction_type,
     is_long_term_capital_gains |->
        /\ r.from_lot # None
        /\ taxable_event_set[r.taxable_event].timestamp
              - in_transaction_set[r.from_lot].timestamp >= LongTermDays]

\* The keys that occur among the records.
RecordKeys == {RecordKey(gain_loss_set[i]) : i \in 1..NRecords}

\* The four sums over the records, among the first n, that have the key.
RECURSIVE SumsOfKey(_, _)
SumsOfKey(key, n) ==
    IF n = 0 THEN ZeroAmounts
    ELSE LET rest == SumsOfKey(key, n - 1)
             r == gain_loss_set[n]
         IN  IF RecordKey(r) # key THEN rest
             ELSE [crypto_amount |-> rest.crypto_amount + r.crypto_amount,
                   usd_amount |-> RAdd(rest.usd_amount,
                       taxable_event_usd_amount_with_fee_fraction(r)),
                   usd_cost_basis |-> RAdd(rest.usd_cost_basis, usd_cost_basis(r)),
                   usd_gain_loss |-> RAdd(rest.usd_gain_loss, usd_gain(r))]

\* C10: the yearly list holds exactly one summary per key that occurs among
\* the records, and each summary's four amounts are the sums over exactly
\* the records with its key.
C10_OneSummaryPerKey ==
    pc = "done" =>
        /\ Len(yearly_gain_loss_list) = Cardinality(RecordKeys)
        /\ {KeyOf(yearly_gain_loss_list[i]) : i \in 1..Len(yearly_gain_loss_list)}
              = RecordKeys
        /\ \A i \in 1..Len(yearly_gain_loss_list) :
              LET y == yearly_gain_loss_list[i]
                  sums == SumsOfKey(KeyOf(y), NRecords)
              IN  /\ y.crypto_amount = sums.crypto_amount
                  /\ y.usd_amount = sums.usd_amount
                  /\ y.usd_cost_basis = sums.usd_cost_basis
                  /\ y.usd_gain_loss = sums.usd_gain_loss

\* Several summaries, one of them accumulated from two records, and two
\* records of one event that differ in the term only.
C10_Witness ==
    /\ pc = "done"
    /\ Len(yearly_gain_loss_list) >= 3
    /\ \E i, j \in 1..NRecords :
          i # j /\ RecordKey(gain_loss_set[i]) = RecordKey(gain_loss_set[j])
    /\ \E i, j \in 1..NRecords :
          /\ gain_loss_set[i].taxable_event = gain_loss_set[j].taxable_event
          /\ RecordKey(gain_loss_set[i]).is_long_term_capital_gains
          /\ ~RecordKey(gain_loss_set[j]).is_long_term_capital_gains

\* ------------------------------------------- histories with stated amounts

\* Longest history with stated USD amounts.
ScenarioLen == 3

\* Acquisitions of 6 units for $60 or $90 (fee included), bought or earned.
ScenarioLots == [transaction_type : InTypes, crypto : {6}, usd : {60, 90}]

\* Disposals and transfers of 2, 6 or 8 taxable units worth $100.
ScenarioDisposals ==
    [transaction_type : OutTypes \cup IntraTypes, crypto : {2, 6, 8}, usd : {100}]

ScenarioHistories ==
    UNION {[1..n -> ScenarioLots \cup ScenarioDisposals] : n \in 0..ScenarioLen}

\* The transaction at position i, with the USD amount the history states.
ScenarioEntry(h, i, first) ==
    [timestamp |-> first + i - 1,
     transaction_type |-> h[i].transaction_type,
     crypto |-> h[i].crypto,
     usd |-> h[i].usd]

RECURSIVE ScenarioEntriesFrom(_, _, _, _)
ScenarioEntriesFrom(h, types, first, i) ==
    IF i > Len(h) THEN <<>>
    ELSE IF h[i].transaction_type \in types
         THEN <<ScenarioEntry(h, i, first)>>
                  \o ScenarioEntriesFrom(h, types, first, i + 1)
         ELSE ScenarioEntriesFrom(h, types, first, i + 1)

InitScenario ==
    /\ Configured
    /\ \E h \in ScenarioHistories, first \in FirstDays :
        /\ in_transaction_set = ScenarioEntriesFrom(h, InTypes, first, 1)
        /\ out_transaction_set = ScenarioEntriesFrom(h, OutTypes, first, 1)
        /\ intra_transaction_set = ScenarioEntriesFrom(h, IntraTypes, first, 1)
    /\ taxable_event_set = <<>>
    /\ pc = "compute_tax"
    /\ taxable_event_iterator = 0
    /\ from_lot_iterator = 0
    /\ taxable_event = None
    /\ taxable_event_amount = 0
    /\ from_lot = None
    /\ from_lot_amount = 0
    /\ gain_loss_set = <<>>
    /\ stop_iteration = NoIterator
    /\ yearly_gain_loss_list = <<>>
    /\ totals = NoTotals
    /\ verify = "not run"

SpecScenario == InitScenario /\ [][Next]_vars

\* Two bought lots, 6 units for $60 and then 6 units for $90, and one sale of
\* 8 taxable units worth $100.
TwoLotsOneSale ==
    /\ Len(in_transaction_set) = 2
    /\ in_transaction_set[1].transaction_type = "BUY"
    /\ in_transaction_set[1].crypto = 6
    /\ in_transaction_set[1].usd = 60
    /\ in_transaction_set[2].transaction_type = "BUY"
    /\ in_transaction_set[2].crypto = 6
    /\ in_transaction_set[2].usd = 90
    /\ Len(out_transaction_set) = 1
    /\ out_transaction_set[1].crypto = 8
    /\ out_transaction_set[1].usd = 100
    /\ intra_transaction_set = <<>>

\* C11: for lots (6 units/$60, 6 units/$90) and one disposal of 8 taxable
\* units worth $100 the matcher returns exactly two records, 6 against lot 1
\* and 2 against lot 2, with cost bases $60 and $30 and proceeds $75 and $25;
\* 4 units of lot 2 stay unconsumed, and the totals are proceeds $100, cost
\* basis $90 and gain $10.
C11_SplitAcrossTwoLots ==
    (TwoLotsOneSale /\ Ended) =>
        /\ pc # "RP2ValueError"
        /\ gain_loss_set
              = <<[crypto_amount |-> 6, taxable_event |-> 1, from_lot |-> 1],
                  [crypto_amount |-> 2, taxable_event |-> 1, from_lot |-> 2]>>
        /\ usd_cost_basis(gain_loss_set[1]) = Dec(60)
        /\ usd_cost_basis(gain_loss_set[2]) = Dec(30)
        /\ taxable_event_usd_amount_with_fee_fraction(gain_loss_set[1]) = Dec(75)
        /\ taxable_event_usd_amount_with_fee_fraction(gain_loss_set[2]) = Dec(25)
        /\ from_lot = 2
        /\ from_lot_amount = 4
        /\ in_transaction_set[2].crypto - DrawnFrom(2, NRecords) = 4
        /\ Aggregated =>
              /\ pc = "done"
              /\ totals = [crypto_taxable_amount_total |-> 8,
                           usd_taxable_amount_total |-> Dec(100),
                           cost_basis_total |-> Dec(90),
                           gain_loss_total |-> Dec(10)]

\* The two lots and the sale were matched, aggregated and verified.
C11_Witness == TwoLotsOneSale /\ pc = "done" /\ NRecords = 2

\* ------------------------------------------- constructing the configuration

\* Longest history handed to compute_tax after the configuration is built.
ConfigMaxTx == 2

ConfigHistories == {h \in Histories : Len(h) <= ConfigMaxTx}

\* The arguments Configuration(...) is called with.
ConstructorArgs ==
    [configuration_path : {ValidFile, InvalidFile, MissingFile, NotAString},
     accounting_method : {FIFO, LIFO, NotAnAccountingMethod},
     up_to_year : {NoUpToYear, 2021, -1}]

InitConfig ==
    /\ constructor_args \in ConstructorArgs
    /\ configuration_outcome = [error |-> "none", file_opened |-> FALSE]
    /\ configurations = {}
    /\ \E h \in ConfigHistories, first \in FirstDays :
        /\ in_transaction_set = EntriesOf(h, InTypes, first)
        /\ out_transaction_set = EntriesOf(h, OutTypes, first)
        /\ intra_transaction_set = EntriesOf(h, IntraTypes, first)
    /\ taxable_event_set = <<>>
    /\ pc = "Configuration"
    /\ taxable_event_iterator = 0
    /\ from_lot_iterator = 0
    /\ taxable_event = None
    /\ taxable_event_amount = 0
    /\ from_lot = None
    /\ from_lot_amount = 0
    /\ gain_loss_set = <<>>
    /\ stop_iteration = NoIterator
    /\ yearly_gain_loss_list = <<>>
    /\ totals = NoTotals
    /\ verify = "not run"

\* Configuration(configuration_path, accounting_method, up_to_year): the
\* object exists only when __init__ returns.
ConstructConfiguration ==
    /\ pc = "Configuration"
    /\ configuration_outcome' = Configuration_init(constructor_args)
    /\ IF Configuration_init(constructor_args).error = "none"
       THEN /\ configurations' = {constructor_args}
            /\ pc' = "compute_tax"
       ELSE /\ configurations' = {}
            /\ pc' = "Configuration failed"
    /\ UNCHANGED <<constructor_args, in_transaction_set, out_transaction_set,
                   intra_transaction_set, taxable_event_set, matcher, aggregate>>

NextConfig ==
    \/ ConstructConfiguration
    \/ Next

SpecConfig == InitConfig /\ [][NextConfig]_vars

\* The constructor has run.
Constructed == pc # "Configuration"

\* C12: constructing a Configuration (for a configuration file path) with an
\* AccountingMethod other than FIFO fails with NotImplementedError before
\* the file is opened; no Configuration object with a method other than FIFO
\* exists, and compute_tax and the matcher only run with a FIFO configuration.
C12_NonFifoRejected ==
    /\ (/\ Constructed
        /\ constructor_args.configuration_path # NotAString
        /\ constructor_args.accounting_method \in AccountingMethods \ {FIFO}) =>
            configuration_outcome.error = "NotImplementedError"
    /\ (Constructed /\ constructor_args.accounting_method # FIFO) =>
            /\ ~configuration_outcome.file_opened
            /\ pc = "Configuration failed"
    /\ \A c \in configurations : c.accounting_method = FIFO
    /\ pc \notin {"Configuration", "Configuration failed"} =>
            /\ configurations # {}
            /\ constructor_args.accounting_method = FIFO

\* Configuration("rp2.json", LIFO) was rejected with NotImplementedError.
C12_Witness ==
    /\ pc = "Configuration failed"
    /\ constructor_args.configuration_path = ValidFile
    /\ constructor_args.accounting_method = LIFO
    /\ configuration_outcome.error = "NotImplementedError"
    /\ configurations = {}

\* ------------------------------------------------------ C13: termination

\* How far the two iterators have got together.
Pointers == taxable_event_iterator + from_lot_iterator

\* One iteration of the while loop.
Iteration == EarnStep \/ EqualStep \/ LessStep \/ GreaterStep

\* An iteration emits exactly one record, moves neither pointer back, and
\* either moves a pointer forward or leaves the loop on an exhausted iterator.
C13_IterationProgress ==
    [][pc = "loop" =>
        /\ Len(gain_loss_set') = Len(gain_loss_set) + 1
        /\ taxable_event_iterator' >= taxable_event_iterator
        /\ from_lot_iterator' >= from_lot_iterator
        /\ pc' = "loop" => Pointers' > Pointers
        /\ pc' # "loop" =>
            /\ pc' \in {"returned", "RP2ValueError"}
            /\ stop_iteration' # NoIterator]_vars

\* The pointers stay within the n events and m lots, an iteration can always
\* be taken while the loop runs, every iteration so far has moved a pointer
\* past the first event and lot, and there are at most n + m records.
C13_WithinEventsAndLots ==
    /\ taxable_event_iterator <= NEvents
    /\ from_lot_iterator <= NLots
    /\ pc = "loop" => ENABLED Iteration
    /\ pc = "loop" => NRecords + 2 <= Pointers
    /\ NRecords <= NEvents + NLots

\* C13: the matching loop terminates on n taxable events and m lots: each
\* iteration emits exactly one record and advances at least one of the two
\* pointers, so the loop ends, by normal return or by the insufficiency
\* error, after at most n + m iterations with at most n + m records.
C13_LoopTerminates == []C13_WithinEventsAndLots /\ C13_IterationProgress

\* The loop ended after three iterations that moved both pointers.
C13_Witness ==
    /\ Ended
    /\ NRecords = 3
    /\ taxable_event_iterator = 2
    /\ from_lot_iterator = 2

\* ------------------------------------- C14: lots acquired before disposal

\* C14: every lot-bearing gain/loss record pairs a taxable event with a lot
\* acquired no later than that event, also for histories in which the
\* quantity disposed up to some date exceeds the quantity acquired up to
\* that date while later acquisitions make the overall totals sufficient.
C14_LotAcquiredBeforeEvent ==
    \A i \in 1..NRecords :
        gain_loss_set[i].from_lot # None =>
            LotOf(gain_loss_set[i]).timestamp <= EventOf(gain_loss_set[i]).timestamp

====
